---- MODULE Spec2Model ----
\* Model of public/scripts/print-fillers.js: the print-time transformer that
\* turns ": _____" placeholders into fillable inputs before printing and
\* reverts the DOM afterwards.
EXTENDS Integers, Sequences, FiniteSets, TLC

VARIABLES
    doc,        \* the text positions of document.body, in document order
    doc0,       \* the document as it was when the script was loaded
    hasHead,    \* document.head exists
    styles,     \* number of elements with id 'print-fillers-style'
    printing,   \* between the browser's beforeprint and afterprint events
    pc,         \* "inOrig" while the wrapper waits inside origPrint
    calls,      \* calls of the wrapped window.print so far
    timers,     \* calls whose setTimeout(afterPrint, 500) is pending
    call,       \* what the latest call of the wrapper did
    origCalls,  \* invocations of origPrint so far
    stepped,    \* some before-print step (a run of beforePrint) has happened
    lastScan,   \* how the latest run of scan ended
    ops         \* the latest two of scan / afterPrint runs, oldest first

vars == <<doc, doc0, hasHead, styles, printing, pc, calls, timers, call, origCalls, stepped, lastScan, ops>>

\* ---------------------------------------------------------------- bounds
\* longest generated text, in tokens
MaxTokens == 5
\* most text nodes in a generated document
MaxNodes == 2
\* most calls of the intercepted window.print in one behaviour
MaxCalls == 2

\* ---------------------------------------------------------------- strings
\* A string is a sequence of one-character strings; offsets are 0-based as
\* in JavaScript.
Max(a, b) == IF a >= b THEN a ELSE b

slice(text, from, to) == SubSeq(text, from + 1, to)

Digits == <<"0", "1", "2", "3", "4", "5", "6", "7", "8", "9">>

RECURSIVE String(_)
String(n) ==
    IF n < 10 THEN <<Digits[n + 1]>>
    ELSE String(n \div 10) \o <<Digits[(n % 10) + 1]>>

\* The characters of the class \s, which are also the ones trim() strips:
\* WhiteSpace and LineTerminator of ECMAScript.  A character a TLA+ string
\* cannot hold is written as its code point.
WhiteSpace ==
    {" ", "\t", "\n", "\r", "\f", "U+000B", "U+00A0", "U+1680",
     "U+2000", "U+2001", "U+2002", "U+2003", "U+2004", "U+2005", "U+2006",
     "U+2007", "U+2008", "U+2009", "U+200A", "U+2028", "U+2029", "U+202F",
     "U+205F", "U+3000", "U+FEFF"}

IsSpace(c) == c \in WhiteSpace

\* String.prototype.trim() leaves a non-empty string
TrimNonEmpty(text) == \E i \in 1..Len(text) : ~IsSpace(text[i])

\* ---------------------------------------------------------------- PATTERN
RECURSIVE SkipSpaces(_, _)
SkipSpaces(text, i) ==
    IF i < Len(text) /\ IsSpace(text[i + 1]) THEN SkipSpaces(text, i + 1) ELSE i

RECURSIVE SkipUnderscores(_, _)
SkipUnderscores(text, i) ==
    IF i < Len(text) /\ text[i + 1] = "_" THEN SkipUnderscores(text, i + 1) ELSE i

\* the pattern with _{4,} where the code has _{5,}
MatchAt_fourOrMore(text, i) ==
    LET s == SkipSpaces(text, i + 1)
        e == SkipUnderscores(text, s)
    IN  [ok          |-> i < Len(text) /\ text[i + 1] = ":" /\ e - s >= 4,
         index       |-> i,
         spaces      |-> slice(text, i + 1, s),
         underscores |-> slice(text, s, e),
         lastIndex   |-> e]

\* /:(\s*)(_{5,})/ tried at offset i: both quantifiers are greedy, and giving
\* back whitespace or underscores never turns a failure into a match.
MatchAt(text, i) ==
    LET s == SkipSpaces(text, i + 1)
        e == SkipUnderscores(text, s)
    IN  [ok          |-> i < Len(text) /\ text[i + 1] = ":" /\ e - s >= 5,
         index       |-> i,
         spaces      |-> slice(text, i + 1, s),
         underscores |-> slice(text, s, e),
         lastIndex   |-> e]

NoMatch == [ok |-> FALSE]

\* PATTERN.exec(text) with PATTERN.lastIndex = lastIndex (global flag)
RECURSIVE PATTERN_exec(_, _)
PATTERN_exec(text, lastIndex) ==
    IF lastIndex >= Len(text) THEN NoMatch
    ELSE IF MatchAt(text, lastIndex).ok THEN MatchAt(text, lastIndex)
    ELSE PATTERN_exec(text, lastIndex + 1)

\* PATTERN.lastIndex = 0; PATTERN.test(text)
PATTERN_test(text) == PATTERN_exec(text, 0).ok

\* ---------------------------------------------------------------- nodes
TextNode(value) == [kind |-> "text", value |-> value]

\* createInputFor with Math.min where the code has Math.max
createInputFor_minWidth(underscoresCount) ==
    [kind        |-> "input",
     className   |-> "print-fillable-input",
     width       |-> String(IF underscoresCount < 2 THEN underscoresCount ELSE 2) \o <<"c", "h">>,
     underscores |-> String(underscoresCount)]

\* createInputFor recording the length of the whole match, colon included
createInputFor_matchLength(underscoresCount) ==
    [kind        |-> "input",
     className   |-> "print-fillable-input",
     width       |-> String(Max(2, underscoresCount)) \o <<"c", "h">>,
     underscores |-> String(underscoresCount + 1)]

createInputFor(underscoresCount) ==
    [kind        |-> "input",
     className   |-> "print-fillable-input",
     width       |-> String(Max(2, underscoresCount)) \o <<"c", "h">>,
     underscores |-> String(underscoresCount)]

\* replaceLoop that never appends the text in front of a match
RECURSIVE replaceLoop_dropBefore(_, _, _)
replaceLoop_dropBefore(text, lastIndex, frag) ==
    LET m == PATTERN_exec(text, lastIndex)
    IN  IF ~m.ok THEN [frag |-> frag, lastIndex |-> lastIndex]
        ELSE LET f2 == Append(frag, TextNode(<<":">> \o m.spaces))
                 f3 == Append(f2, [kind |-> "input", className |-> "print-fillable-input",
                                   width |-> String(Max(2, Len(m.underscores))) \o <<"c", "h">>,
                                   underscores |-> String(Len(m.underscores))])
             IN  replaceLoop_dropBefore(text, m.lastIndex, f3)

\* replaceLoop with the whole match m[0] kept as text in front of the input
RECURSIVE replaceLoop_wholeMatch(_, _, _)
replaceLoop_wholeMatch(text, lastIndex, frag) ==
    LET m == PATTERN_exec(text, lastIndex)
    IN  IF ~m.ok THEN [frag |-> frag, lastIndex |-> lastIndex]
        ELSE LET before == slice(text, lastIndex, m.index)
                 f1 == IF Len(before) > 0 THEN Append(frag, TextNode(before)) ELSE frag
                 f2 == Append(f1, TextNode(slice(text, m.index, m.lastIndex)))
                 f3 == Append(f2, [kind |-> "input", className |-> "print-fillable-input",
                                   width |-> String(Max(2, Len(m.underscores))) \o <<"c", "h">>,
                                   underscores |-> String(Len(m.underscores))])
             IN  replaceLoop_wholeMatch(text, m.lastIndex, f3)

\* the while loop of replaceInTextNode: the fragment built from lastIndex on
RECURSIVE replaceLoop(_, _, _)
replaceLoop(text, lastIndex, frag) ==
    LET m == PATTERN_exec(text, lastIndex)
    IN  IF ~m.ok THEN [frag |-> frag, lastIndex |-> lastIndex]
        ELSE LET before == slice(text, lastIndex, m.index)
                 f1 == IF Len(before) > 0 THEN Append(frag, TextNode(before)) ELSE frag
                 f2 == Append(f1, TextNode(<<":">> \o m.spaces))
                 f3 == Append(f2, createInputFor(Len(m.underscores)))
             IN  replaceLoop(text, m.lastIndex, f3)

\* replaceInTextNode storing as data-original the text up to the end of the
\* last match only
replaceInTextNode_originalToLastMatch(node) ==
    LET text == node.value
        r == replaceLoop(text, 0, <<>>)
        remainder == slice(text, r.lastIndex, Len(text))
    IN  IF Len(text) = 0 THEN node
        ELSE IF Len(r.frag) = 0 THEN node
        ELSE [kind      |-> "wrapper",
              className |-> "print-fillers-wrapper",
              original  |-> slice(text, 0, r.lastIndex),
              children  |-> IF Len(remainder) > 0
                            THEN Append(r.frag, TextNode(remainder))
                            ELSE r.frag]

\* replaceInTextNode(node): the node that stands in the text node's place
\* afterwards (the node itself when the function returns false)
replaceInTextNode(node) ==
    LET text == node.value
        r == replaceLoop(text, 0, <<>>)
        remainder == slice(text, r.lastIndex, Len(text))
    IN  IF Len(text) = 0 THEN node
        ELSE IF Len(r.frag) = 0 THEN node
        ELSE [kind      |-> "wrapper",
              className |-> "print-fillers-wrapper",
              original  |-> text,
              children  |-> IF Len(remainder) > 0
                            THEN Append(r.frag, TextNode(remainder))
                            ELSE r.frag]

\* ---------------------------------------------------------------- document
\* The element skeleton of document.body never changes, so the document is
\* the sequence of its text positions in document order.  Each position has
\* the tagNames of its element ancestors below body (outermost first) and the
\* node now standing there: the text node, or the wrapper that replaced it.
\* A tagName is a sequence of UTF-16 code units, like a text.
UpperCase ==
    <<"A", "B", "C", "D", "E", "F", "G", "H", "I", "J", "K", "L", "M",
      "N", "O", "P", "Q", "R", "S", "T", "U", "V", "W", "X", "Y", "Z">>

LowerCase ==
    <<"a", "b", "c", "d", "e", "f", "g", "h", "i", "j", "k", "l", "m",
      "n", "o", "p", "q", "r", "s", "t", "u", "v", "w", "x", "y", "z">>

ExemptTags ==
    {<<"s", "c", "r", "i", "p", "t">>, <<"s", "t", "y", "l", "e">>,
     <<"t", "e", "x", "t", "a", "r", "e", "a">>, <<"c", "o", "d", "e">>,
     <<"p", "r", "e">>, <<"i", "n", "p", "u", "t">>, <<"s", "e", "l", "e", "c", "t">>,
     <<"b", "u", "t", "t", "o", "n">>, <<"s", "v", "g">>}

\* The code units that String.prototype.toLowerCase turns into the lower-case
\* ASCII letter l: l itself, its capital, and for k the Kelvin sign.  No
\* other code unit or surrogate pair has an all-ASCII lower case (U+0130
\* gives i followed by U+0307).
LowerCasedTo(l) ==
    {l} \cup {UpperCase[k] : k \in {n \in 1..Len(LowerCase) : LowerCase[n] = l}}
        \cup (IF l = "k" THEN {"U+212A"} ELSE {})

\* [...].includes(parent.tagName.toLowerCase()): the names of the list are
\* lower-case ASCII letters, so the lower-cased tagName is one of them
\* exactly when it has the name's length and each code unit lower-cases to
\* the name's letter.
includesLowerCased(tagName) ==
    \E name \in ExemptTags :
        /\ Len(tagName) = Len(name)
        /\ \A i \in 1..Len(name) : tagName[i] \in LowerCasedTo(name[i])

\* tagName of document.body and of the span the wrapper is
TagBODY == <<"B", "O", "D", "Y">>
TagSPAN == <<"S", "P", "A", "N">>

ParentTag(path) == IF Len(path) = 0 THEN TagBODY ELSE path[Len(path)]

\* the acceptNode filter of the TreeWalker (TRUE: FILTER_ACCEPT)
acceptNode(node, parentTag) ==
    IF Len(node.value) = 0 \/ ~TrimNonEmpty(node.value) THEN FALSE
    ELSE IF includesLowerCased(parentTag) THEN FALSE
    ELSE PATTERN_test(node.value)

\* An address is <<position>> followed by child indices inside wrappers.
\* The text nodes the walker accepts at or below one node, in document order.
RECURSIVE walkNode(_, _, _)
RECURSIVE walkChildren(_, _, _)
walkNode(node, parentTag, addr) ==
    IF node.kind = "text" THEN (IF acceptNode(node, parentTag) THEN <<addr>> ELSE <<>>)
    ELSE IF node.kind = "wrapper" THEN walkChildren(node.children, 1, addr)
    ELSE <<>>
walkChildren(children, j, addr) ==
    IF j > Len(children) THEN <<>>
    ELSE walkNode(children[j], TagSPAN, Append(addr, j)) \o walkChildren(children, j + 1, addr)

\* while ((cur = walker.nextNode())) nodes.push(cur)
RECURSIVE walkFrom(_, _)
walkFrom(document, i) ==
    IF i > Len(document) THEN <<>>
    ELSE walkNode(document[i].node, ParentTag(document[i].path), <<i>>)
         \o walkFrom(document, i + 1)

RECURSIVE NodeAt(_, _)
NodeAt(node, rest) ==
    IF Len(rest) = 0 THEN node ELSE NodeAt(node.children[rest[1]], Tail(rest))

\* n.parentNode.replaceChild(new, n) for the node at an address
RECURSIVE replaceChild(_, _, _)
replaceChild(node, rest, new) ==
    IF Len(rest) = 0 THEN new
    ELSE [node EXCEPT !.children[rest[1]] = replaceChild(@, Tail(rest), new)]

\* for (const n of nodes) replaceInTextNode(n)
RECURSIVE replaceAll(_, _, _)
replaceAll(document, nodes, k) ==
    IF k > Len(nodes) THEN document
    ELSE LET a == nodes[k]
             n == NodeAt(document[a[1]].node, Tail(a))
             d == [document EXCEPT ![a[1]].node = replaceChild(@, Tail(a), replaceInTextNode(n))]
         IN  replaceAll(d, nodes, k + 1)

\* Where a run of scan is made to fail: nowhere; in the traversal, once the
\* walker has handed out `at` nodes (createTreeWalker itself when at = 0); or
\* inside replaceInTextNode for the at-th collected node, which throws before
\* its final replaceChild.
NoFault == [kind |-> "none", at |-> 0]

Faults(document) ==
    {NoFault}
    \cup {[kind |-> "walk", at |-> k] : k \in 0..Len(walkFrom(document, 1))}
    \cup {[kind |-> "replace", at |-> k] : k \in 1..Len(walkFrom(document, 1))}

\* a try block that replaces each node as soon as the walker hands it out
scanBody_interleaved(document, nodes, fault) ==
    IF fault.kind = "walk" /\ fault.at <= Len(nodes)
    THEN [doc |-> replaceAll(document, SubSeq(nodes, 1, fault.at), 1), threw |-> TRUE]
    ELSE IF fault.kind = "replace" /\ fault.at >= 1 /\ fault.at <= Len(nodes)
    THEN [doc |-> replaceAll(document, SubSeq(nodes, 1, fault.at - 1), 1), threw |-> TRUE]
    ELSE [doc |-> replaceAll(document, nodes, 1), threw |-> FALSE]

\* a try block whose replaceInTextNode puts the empty wrapper in the text
\* node's place first and fills it afterwards: the failing node is left as an
\* empty wrapper
scanBody_wrapperFirst(document, nodes, fault) ==
    IF fault.kind = "walk" /\ fault.at <= Len(nodes)
    THEN [doc |-> document, threw |-> TRUE]
    ELSE IF fault.kind = "replace" /\ fault.at >= 1 /\ fault.at <= Len(nodes)
    THEN [doc |-> [replaceAll(document, SubSeq(nodes, 1, fault.at - 1), 1)
                     EXCEPT ![nodes[fault.at][1]].node =
                        replaceChild(@, Tail(nodes[fault.at]),
                                     [kind |-> "wrapper", className |-> "print-fillers-wrapper",
                                      original |-> <<>>, children |-> <<>>])],
          threw |-> TRUE]
    ELSE [doc |-> replaceAll(document, nodes, 1), threw |-> FALSE]

\* the try block of scan: the nodes are collected, then replaced one by one
scanBody(document, nodes, fault) ==
    IF fault.kind = "walk" /\ fault.at <= Len(nodes)
    THEN [doc |-> document, threw |-> TRUE]
    ELSE IF fault.kind = "replace" /\ fault.at >= 1 /\ fault.at <= Len(nodes)
    THEN [doc |-> replaceAll(document, SubSeq(nodes, 1, fault.at - 1), 1), threw |-> TRUE]
    ELSE [doc |-> replaceAll(document, nodes, 1), threw |-> FALSE]

\* scan without its catch: what the try block threw leaves scan
caught_rethrow(body, fault) ==
    [doc |-> body.doc, threw |-> body.threw, warned |-> FALSE, fault |-> fault]

\* catch (err) { console.warn(...) }: what the try block threw is logged
caught(body, fault) ==
    [doc |-> body.doc, threw |-> FALSE, warned |-> body.threw, fault |-> fault]

\* scan(document.body)
scan(document, fault) ==
    caught(scanBody(document, walkFrom(document, 1), fault), fault)

\* w.textContent: the text of the wrapper's descendants
RECURSIVE textContent(_, _)
textContent(children, j) ==
    IF j > Len(children) THEN <<>>
    ELSE (IF children[j].kind = "text" THEN children[j].value
          ELSE IF children[j].kind = "wrapper" THEN textContent(children[j].children, 1)
          ELSE <<>>) \o textContent(children, j + 1)

\* afterPrint restoring w.textContent instead of w.dataset.original
afterPrint_textContent(document) ==
    [i \in 1..Len(document) |->
        IF document[i].node.kind = "wrapper"
        THEN [document[i] EXCEPT !.node = TextNode(textContent(document[i].node.children, 1))]
        ELSE document[i]]

\* afterPrint that also empties the text nodes holding only white space
afterPrint_emptyBlank(document) ==
    [i \in 1..Len(document) |->
        IF document[i].node.kind = "wrapper"
        THEN [document[i] EXCEPT !.node = TextNode(document[i].node.original)]
        ELSE IF ~TrimNonEmpty(document[i].node.value)
        THEN [document[i] EXCEPT !.node = TextNode(<<>>)]
        ELSE document[i]]

\* afterPrint(): every wrapper is replaced by a text node of its data-original.
\* Outer wrappers come first in querySelectorAll's order, so a wrapper inside
\* a wrapper is replaced only inside the subtree already removed.
afterPrint(document) ==
    [i \in 1..Len(document) |->
        IF document[i].node.kind = "wrapper"
        THEN [document[i] EXCEPT !.node = TextNode(document[i].node.original)]
        ELSE document[i]]

\* ensureStyle(): hd is whether document.head exists, st the number of
\* elements with id 'print-fillers-style'
ensureStyle(hd, st) ==
    IF st > 0 THEN [threw |-> FALSE, styles |-> st]
    ELSE IF hd THEN [threw |-> FALSE, styles |-> st + 1]
    ELSE [threw |-> TRUE, styles |-> st]

\* no scan was run
NoScan == [fault |-> NoFault, warned |-> FALSE, threw |-> FALSE]

\* beforePrint() once ensureStyle() has returned: scan(document.body) ended as sc
styledThenScanned(st, sc) ==
    [threw |-> sc.threw, styles |-> st, doc |-> sc.doc, ran |-> <<"scan">>,
     scan |-> [fault |-> sc.fault, warned |-> sc.warned, threw |-> sc.threw]]

\* beforePrint(): ensureStyle(), then scan(document.body)
beforePrint(document, hd, st, fault) ==
    IF ensureStyle(hd, st).threw
    THEN [threw |-> TRUE, styles |-> ensureStyle(hd, st).styles,
          doc |-> document, ran |-> <<>>, scan |-> NoScan]
    ELSE styledThenScanned(ensureStyle(hd, st).styles, scan(document, fault))

\* ---------------------------------------------------------------- window.print
\* the wrapper with beforePrint() outside any try: its exception leaves the
\* wrapper before origPrint is reached
printEnter_noTry(b, args) ==
    [doc      |-> b.doc,
     styles   |-> b.styles,
     preThrew |-> b.threw,
     ran      |-> b.ran,
     scan     |-> b.scan,
     invoked  |-> ~b.threw,
     origArgs |-> args]

\* The wrapper up to the moment control is inside origPrint, beforePrint()
\* having ended as b says:
\*   try { beforePrint() } catch (e) {}   then   origPrint.apply(window, args)
printEnter(b, args) ==
    [doc      |-> b.doc,
     styles   |-> b.styles,
     preThrew |-> b.threw,
     ran      |-> b.ran,
     scan     |-> b.scan,
     invoked  |-> TRUE,
     origArgs |-> args]

\* the wrapper calling afterPrint() at once: setTimeout(afterPrint(), 500)
printExit_sync(document, pending, id, schedOk) ==
    [doc      |-> [i \in 1..Len(document) |->
                     IF document[i].node.kind = "wrapper"
                     THEN [document[i] EXCEPT !.node = TextNode(document[i].node.original)]
                     ELSE document[i]],
     timers   |-> pending,
     ran      |-> <<"revert">>,
     returned |-> TRUE]

\* The wrapper after origPrint returned:
\*   try { setTimeout(afterPrint, 500) } catch (e) {}   return res
\* schedOk is whether setTimeout accepted the callback; id names the timer.
printExit(document, pending, id, schedOk) ==
    [doc      |-> document,
     timers   |-> IF schedOk THEN pending \cup {id} ELSE pending,
     ran      |-> <<>>,
     returned |-> TRUE]

\* history: the latest two runs of scan / afterPrint
RECURSIVE Push(_, _)
Push(h, ran) ==
    IF Len(ran) = 0 THEN h
    ELSE Push(IF Len(h) < 2 THEN Append(h, ran[1]) ELSE <<h[2], ran[1]>>, Tail(ran))

LastOp(h) == IF Len(h) = 0 THEN "none" ELSE h[Len(h)]

\* ---------------------------------------------------------------- inputs
Us(n) == [i \in 1..n |-> "_"]

\* the pieces generated texts are made of: a letter, a colon, a space, a run
\* too short to match (two of them make a long enough one), and two whole
\* placeholders, one with a line feed and a tab after the colon
Tokens ==
    {<<"a">>, <<":">>, <<" ">>, Us(4), <<":", "\n", "\t">> \o Us(5), <<":">> \o Us(10)}

RECURSIVE TextsUpTo(_)
TextsUpTo(n) ==
    IF n = 0 THEN {<<>>}
    ELSE LET S == TextsUpTo(n - 1) IN S \cup {s \o t : s \in S, t \in Tokens}

ExampleText ==
    <<"N", "a", "m", "e", ":", " ">> \o Us(5) \o <<" ", "D", "a", "t", "e", ":", " ">> \o Us(6)

\* a colon followed, with or without a space, by a run too short to match
ShortRunTexts ==
    {<<"a", ":">> \o sp \o Us(n) \o end :
        sp \in {<<>>, <<" ">>}, n \in 1..4, end \in {<<>>, <<"a">>}}

ArgsSet == {<<>>, <<"x">>}

Slot(path, text) == [path |-> path, node |-> TextNode(text)]

\* tagNames of the elements the generated documents use
TagP == <<"P">>
TagPRE == <<"P", "R", "E">>
TagSELECT == <<"S", "E", "L", "E", "C", "T">>
TagOPTION == <<"O", "P", "T", "I", "O", "N">>
TagSCRIPT == <<"S", "C", "R", "I", "P", "T">>

\* positions the generated documents are made of: a paragraph with two
\* placeholders, one with too short a run, one of whitespace only, text
\* directly in body with a long run after a no-break space and a tab, and
\* placeholders inside exempt elements, directly and one element deeper
MainSlots ==
    { Slot(<<TagP>>, <<"a", ":">> \o Us(5) \o <<":", " ">> \o Us(6)),
      Slot(<<TagP>>, <<":">> \o Us(4)),
      Slot(<<TagP>>, <<" ", "\n">>),
      Slot(<<>>, <<":", "U+00A0", "\t">> \o Us(10) \o <<"a">>),
      Slot(<<TagPRE>>, <<":">> \o Us(5)),
      Slot(<<TagPRE, TagSPAN>>, <<":">> \o Us(5)),
      Slot(<<TagSELECT, TagOPTION>>, <<":", " ">> \o Us(5)),
      Slot(<<TagSCRIPT>>, <<":">> \o Us(5)) }

RECURSIVE DocsUpTo(_)
DocsUpTo(n) ==
    IF n = 0 THEN {<<>>}
    ELSE LET S == DocsUpTo(n - 1) IN S \cup {Append(d, s) : d \in S, s \in MainSlots}

NoCall == [status |-> "none", args |-> <<>>, origArgs |-> <<>>,
           preThrew |-> FALSE, schedThrew |-> FALSE]

\* ---------------------------------------------------------------- Spec
\* the script has run: listeners registered, window.print wrapped
Init ==
    /\ doc \in DocsUpTo(MaxNodes) \ {<<>>}
    /\ doc0 = doc
    /\ hasHead \in BOOLEAN
    /\ styles = 0
    /\ printing = FALSE
    /\ pc = "idle"
    /\ calls = 0
    /\ timers = {}
    /\ call = NoCall
    /\ origCalls = 0
    /\ stepped = FALSE
    /\ lastScan = NoScan
    /\ ops = <<>>

\* the state once a beforePrint() listener has ended as b says
Listened(b) ==
    /\ doc' = b.doc
    /\ styles' = b.styles
    /\ stepped' = TRUE
    /\ lastScan' = IF Len(b.ran) = 0 THEN lastScan ELSE b.scan
    /\ ops' = Push(ops, b.ran)

\* the browser fires beforeprint: the beforePrint listener runs
BeforePrintEvent ==
    /\ ~printing
    /\ Listened(beforePrint(doc, hasHead, styles, NoFault))
    /\ printing' = TRUE
    /\ UNCHANGED <<doc0, hasHead, pc, calls, timers, call, origCalls>>

\* the browser fires afterprint: the afterPrint listener runs
AfterPrintEvent ==
    /\ printing
    /\ doc' = afterPrint(doc)
    /\ ops' = Push(ops, <<"revert">>)
    /\ printing' = FALSE
    /\ UNCHANGED <<doc0, hasHead, styles, pc, calls, timers, call, origCalls, stepped, lastScan>>

\* the state once the wrapper has got as far as r says
Entered(r, args) ==
    /\ doc' = r.doc
    /\ styles' = r.styles
    /\ stepped' = TRUE
    /\ lastScan' = IF Len(r.ran) = 0 THEN lastScan ELSE r.scan
    /\ ops' = Push(ops, r.ran)
    /\ calls' = calls + 1
    /\ origCalls' = IF r.invoked THEN origCalls + 1 ELSE origCalls
    /\ pc' = IF r.invoked THEN "inOrig" ELSE "idle"
    /\ call' = [status |-> IF r.invoked THEN "inOrig" ELSE "threw",
                args |-> args, origArgs |-> IF r.invoked THEN r.origArgs ELSE <<>>,
                preThrew |-> r.preThrew, schedThrew |-> FALSE]

\* a script calls window.print(...args): the wrapper runs up to origPrint
PrintCall ==
    /\ pc = "idle"
    /\ calls < MaxCalls
    /\ \E args \in ArgsSet :
          Entered(printEnter(beforePrint(doc, hasHead, styles, NoFault), args), args)
    /\ UNCHANGED <<doc0, hasHead, printing, timers>>

\* the state once the wrapper has left as r says
Left(r, schedOk) ==
    /\ doc' = r.doc
    /\ timers' = r.timers
    /\ ops' = Push(ops, r.ran)
    /\ call' = [call EXCEPT !.status = IF r.returned THEN "returned" ELSE "threw",
                            !.schedThrew = ~schedOk]

\* origPrint returns: the wrapper schedules afterPrint and returns
OrigReturns ==
    /\ pc = "inOrig"
    /\ \E schedOk \in BOOLEAN : Left(printExit(doc, timers, calls, schedOk), schedOk)
    /\ pc' = "idle"
    /\ UNCHANGED <<doc0, hasHead, styles, printing, calls, origCalls, stepped, lastScan>>

\* origPrint throws: the exception leaves the wrapper, nothing is scheduled
OrigThrows ==
    /\ pc = "inOrig"
    /\ pc' = "idle"
    /\ call' = [call EXCEPT !.status = "threw"]
    /\ UNCHANGED <<doc, doc0, hasHead, styles, printing, calls, timers, origCalls, stepped, lastScan, ops>>

\* a timer set by the wrapper expires and the event loop runs afterPrint
TimerFires ==
    /\ pc = "idle"
    /\ \E id \in timers :
        /\ timers' = timers \ {id}
        /\ doc' = afterPrint(doc)
        /\ ops' = Push(ops, <<"revert">>)
    /\ UNCHANGED <<doc0, hasHead, styles, printing, pc, calls, call, origCalls, stepped, lastScan>>

Next ==
    \/ BeforePrintEvent
    \/ AfterPrintEvent
    \/ PrintCall
    \/ OrigReturns
    \/ OrigThrows
    \/ TimerFires

Spec == Init /\ [][Next]_vars

\* ---------------------------------------------------------------- TextSpec
\* scan and afterPrint applied to a single text node of a paragraph, over
\* every text of at most MaxTokens tokens, the end-to-end example and the
\* texts whose underscore run is too short
TextInit ==
    /\ \E t \in TextsUpTo(MaxTokens) \cup {ExampleText} \cup ShortRunTexts :
          doc = <<Slot(<<TagP>>, t)>>
    /\ doc0 = doc
    /\ hasHead = TRUE
    /\ styles = 0
    /\ printing = FALSE
    /\ pc = "idle"
    /\ calls = 0
    /\ timers = {}
    /\ call = NoCall
    /\ origCalls = 0
    /\ stepped = FALSE
    /\ lastScan = NoScan
    /\ ops = <<>>

\* the state once scan has ended as sc says
Scanned(sc) ==
    /\ doc' = sc.doc
    /\ lastScan' = [fault |-> sc.fault, warned |-> sc.warned, threw |-> sc.threw]
    /\ ops' = Push(ops, <<"scan">>)

ScanStep ==
    /\ Scanned(scan(doc, NoFault))
    /\ UNCHANGED <<doc0, hasHead, styles, printing, pc, calls, timers, call, origCalls, stepped>>

RevertStep ==
    /\ doc' = afterPrint(doc)
    /\ ops' = Push(ops, <<"revert">>)
    /\ UNCHANGED <<doc0, hasHead, styles, printing, pc, calls, timers, call, origCalls, stepped, lastScan>>

TextNext == ScanStep \/ RevertStep

TextSpec == TextInit /\ [][TextNext]_vars

\* ---------------------------------------------------------------- ScanSpec
\* scan and afterPrint applied to whole documents, scan failing wherever its
\* try block can fail
ScanInit ==
    /\ doc \in DocsUpTo(MaxNodes)
    /\ doc0 = doc
    /\ hasHead = TRUE
    /\ styles = 0
    /\ printing = FALSE
    /\ pc = "idle"
    /\ calls = 0
    /\ timers = {}
    /\ call = NoCall
    /\ origCalls = 0
    /\ stepped = FALSE
    /\ lastScan = NoScan
    /\ ops = <<>>

ScanRun ==
    /\ \E fault \in Faults(doc) : Scanned(scan(doc, fault))
    /\ UNCHANGED <<doc0, hasHead, styles, printing, pc, calls, timers, call, origCalls, stepped>>

ScanNext == ScanRun \/ RevertStep

ScanSpec == ScanInit /\ [][ScanNext]_vars

\* ---------------------------------------------------------------- properties
\* offsets at which the pattern matches, read off the text directly
MatchStarts(text) == {i \in 0..(Len(text) - 1) : MatchAt(text, i).ok}

RECURSIVE SortedSeq(_)
SortedSeq(S) ==
    IF S = {} THEN <<>>
    ELSE LET m == CHOOSE x \in S : \A y \in S : x <= y
         IN  <<m>> \o SortedSeq(S \ {m})

\* the matches of a text, leftmost first
Matches(text) ==
    LET st == SortedSeq(MatchStarts(text))
    IN  [j \in 1..Len(st) |-> MatchAt(text, st[j])]

HasPlaceholder(text) == MatchStarts(text) # {}

DigitValue(c) == CHOOSE d \in 0..9 : Digits[d + 1] = c

RECURSIVE ParseInt(_)
ParseInt(ds) ==
    IF Len(ds) = 0 THEN 0
    ELSE 10 * ParseInt(SubSeq(ds, 1, Len(ds) - 1)) + DigitValue(ds[Len(ds)])

Fields(wrapper) == SelectSeq(wrapper.children, LAMBDA c : c.kind = "input")

AllText(document) == \A i \in 1..Len(document) : document[i].node.kind = "text"

HasWrapper(document) == \E i \in 1..Len(document) : document[i].node.kind = "wrapper"

\* C1: for a text with at least one placeholder, Scan followed at once by
\* Revert leaves the document's text exactly as it was before the Scan, and
\* neither a wrapper nor an input remains.
C1_ScanRevertRestores ==
    (ops = <<"scan", "revert">> /\ \E i \in 1..Len(doc0) : HasPlaceholder(doc0[i].node.value))
        => (doc = doc0 /\ AllText(doc))

C1_Witness ==
    /\ ops = <<"scan", "revert">>
    /\ Cardinality(MatchStarts(doc0[1].node.value)) = 2
    /\ doc = doc0

\* the text nodes directly inside a wrapper
InnerTexts(wrapper) == SelectSeq(wrapper.children, LAMBDA c : c.kind = "text")

\* C4: a second Scan with no Revert in between changes nothing: no wrapper
\* is added or nested, the wrappers keep their children and stored text,
\* and no text node inside a wrapper matches the pattern.
C4_SecondScanIsNoOp ==
    [][(LastOp(ops) = "scan" /\ ops' = <<"scan", "scan">>)
          => /\ doc' = doc
             /\ \A i \in 1..Len(doc') :
                  doc'[i].node.kind = "wrapper" =>
                     \A j \in 1..Len(doc'[i].node.children) :
                        LET c == doc'[i].node.children[j]
                        IN  /\ c.kind # "wrapper"
                            /\ c.kind = "text" => ~PATTERN_test(c.value)]_vars

C4_Witness ==
    /\ ops = <<"scan", "scan">>
    /\ HasWrapper(doc)
    /\ Len(Fields(doc[1].node)) = 2

\* C8 as first stated: after Scan the wrapper of "Name: _____ Date: ______"
\* holds text "Name: ", a field of width 5, text " Date: ", a field of width
\* 6 and stores the initial string; Revert restores exactly that string.
C8_FourChildren ==
    doc0 = <<Slot(<<TagP>>, ExampleText)>> =>
        /\ LastOp(ops) = "scan" =>
             /\ doc[1].node.kind = "wrapper"
             /\ doc[1].node.original = ExampleText
             /\ Len(doc[1].node.children) = 4
             /\ doc[1].node.children[1] = TextNode(<<"N", "a", "m", "e", ":", " ">>)
             /\ doc[1].node.children[2].kind = "input"
             /\ doc[1].node.children[2].width = <<"5", "c", "h">>
             /\ doc[1].node.children[3] = TextNode(<<" ", "D", "a", "t", "e", ":", " ">>)
             /\ doc[1].node.children[4].kind = "input"
             /\ doc[1].node.children[4].width = <<"6", "c", "h">>
        /\ LastOp(ops) = "revert" => doc[1].node = TextNode(ExampleText)

\* C8 (amended): the wrapper holds, in order, text "Name", text ": ", a field
\* of width 5, text " Date", text ": ", a field of width 6: the text in front
\* of each field is two adjacent text nodes reading "Name: " and " Date: ".
\* It stores the initial string, and Revert restores exactly that string.
C8_ExampleEndToEnd ==
    doc0 = <<Slot(<<TagP>>, ExampleText)>> =>
        /\ LastOp(ops) = "scan" =>
             /\ Len(doc) = 1
             /\ doc[1].node.kind = "wrapper"
             /\ doc[1].node.original = ExampleText
             /\ Len(doc[1].node.children) = 6
             /\ doc[1].node.children[1] = TextNode(<<"N", "a", "m", "e">>)
             /\ doc[1].node.children[2] = TextNode(<<":", " ">>)
             /\ doc[1].node.children[3].kind = "input"
             /\ doc[1].node.children[3].width = <<"5", "c", "h">>
             /\ doc[1].node.children[4] = TextNode(<<" ", "D", "a", "t", "e">>)
             /\ doc[1].node.children[5] = TextNode(<<":", " ">>)
             /\ doc[1].node.children[6].kind = "input"
             /\ doc[1].node.children[6].width = <<"6", "c", "h">>
        /\ LastOp(ops) = "revert" => doc = <<Slot(<<TagP>>, ExampleText)>>

C8_Witness ==
    /\ doc0 = <<Slot(<<TagP>>, ExampleText)>>
    /\ ops = <<"scan", "revert">>
    /\ doc[1].node.kind = "text"

\* the text a wrapper's children spell when each field is written as the
\* underscore run its data-underscores attribute records
RECURSIVE Spell(_, _)
Spell(children, j) ==
    IF j > Len(children) THEN <<>>
    ELSE (IF children[j].kind = "text" THEN children[j].value
          ELSE IF children[j].kind = "input" THEN Us(ParseInt(children[j].underscores))
          ELSE <<"?">>) \o Spell(children, j + 1)

\* indices of the inputs among a wrapper's children, in order
FieldIndices(wrapper) ==
    SortedSeq({j \in 1..Len(wrapper.children) : wrapper.children[j].kind = "input"})

\* C9: a text node with k >= 1 matches becomes exactly one wrapper with
\* exactly k fields in match order; the children, with each field read as
\* its underscore run, spell the original text; each field directly follows
\* a text node holding the colon and whitespace of its match, and the text
\* before, between and after the matches is kept as it was.
C9_OneWrapperKFields ==
    LET text == doc0[1].node.value
        ms == Matches(text)
        k == Len(ms)
        w == doc[1].node
        fi == FieldIndices(w)
    IN  (Len(doc0) = 1 /\ k >= 1 /\ LastOp(ops) = "scan") =>
            /\ Len(doc) = 1
            /\ w.kind = "wrapper"
            /\ \A j \in 1..Len(w.children) : w.children[j].kind \in {"text", "input"}
            /\ Len(fi) = k
            /\ Spell(w.children, 1) = text
            /\ \A n \in 1..k :
                 /\ ParseInt(w.children[fi[n]].underscores) = Len(ms[n].underscores)
                 /\ fi[n] > 1
                 /\ w.children[fi[n] - 1] = TextNode(<<":">> \o ms[n].spaces)
                 \* the text between the previous match and this one
                 /\ LET from == IF n = 1 THEN 0 ELSE ms[n - 1].lastIndex
                        prev == IF n = 1 THEN 0 ELSE fi[n - 1]
                        gap == slice(text, from, ms[n].index)
                    IN  IF Len(gap) = 0 THEN fi[n] - 1 = prev + 1
                        ELSE /\ fi[n] - 1 = prev + 2
                             /\ w.children[prev + 1] = TextNode(gap)
            /\ LET tail == slice(text, ms[k].lastIndex, Len(text))
               IN  IF Len(tail) = 0 THEN Len(w.children) = fi[k]
                   ELSE /\ Len(w.children) = fi[k] + 1
                        /\ w.children[fi[k] + 1] = TextNode(tail)

C9_Witness ==
    /\ Len(doc0) = 1
    /\ LastOp(ops) = "scan"
    /\ doc[1].node.kind = "wrapper"
    /\ Len(Fields(doc[1].node)) = 2
    /\ Len(doc[1].node.children) = 7

\* ---------------------------------------------------------------- Spec properties
IsExemptTag(tag) == includesLowerCased(tag)

InsideExempt(path) == \E j \in 1..Len(path) : IsExemptTag(path[j])

\* C2: text with an exempt element anywhere among its ancestors is never
\* transformed: its text node stays in place, unchanged.
C2_ExemptAncestorUntouched ==
    \A i \in 1..Len(doc) : InsideExempt(doc[i].path) => doc[i] = doc0[i]

\* C3: after every print operation the document returns to its original
\* text, also when the underlying print action fails.  Reverts run only from
\* the afterprint event or from a pending timer, so once no print is in
\* progress, no call is inside origPrint and no timer is pending, the
\* document must already be reverted (stated for calls whose setTimeout did
\* not itself throw).
C3_RevertedWhenQuiescent ==
    (pc = "idle" /\ ~printing /\ timers = {} /\ ~call.schedThrew)
        => (doc = doc0 /\ AllText(doc))

\* C5: there is never more than one style element with the fixed id, and
\* there is exactly one once any before-print step has run.
C5_SingleStyle ==
    /\ styles <= 1
    /\ stepped => styles = 1

\* C6: every call of the wrapper invokes origPrint exactly once, with the
\* caller's arguments, also when beforePrint threw; and when setTimeout
\* throws the call still returns normally.
C6_OrigAlwaysInvoked ==
    /\ origCalls = calls
    /\ call.status # "none" => call.origArgs = call.args
    /\ call.preThrew => call.status \in {"inOrig", "returned", "threw"}
    /\ pc = "inOrig" <=> call.status = "inOrig"
    /\ call.schedThrew => call.status = "returned"

C6_Witness ==
    /\ calls = 2
    /\ origCalls = 2
    /\ call.preThrew
    /\ call.schedThrew
    /\ call.status = "returned"
    /\ call.args = <<"x">>
    /\ call.origArgs = <<"x">>

\* C7: in each call Scan has completed when origPrint starts (no text node
\* the walker would accept is left), the call itself never reverts, its
\* timer is set only on return from origPrint, and a timer's Revert runs
\* only from the event loop, outside any call.
C7_CallOrder ==
    [][/\ (pc = "idle" /\ pc' = "inOrig") =>
             /\ timers' = timers
             /\ ~call'.preThrew => (LastOp(ops') = "scan" /\ walkFrom(doc', 1) = <<>>)
       /\ (pc = "inOrig" /\ pc' = "idle") =>
             /\ doc' = doc
             /\ ops' = ops
             /\ timers \subseteq timers'
             /\ timers' \subseteq timers \cup {calls}
       /\ pc' = "inOrig" => calls' \notin timers'
       /\ (timers \ timers') # {} =>
             /\ pc = "idle" /\ pc' = "idle"
             /\ LastOp(ops') = "revert"
             /\ AllText(doc')]_vars

C7_Witness ==
    /\ pc = "idle"
    /\ calls = 1
    /\ call.status = "returned"
    /\ ~call.preThrew
    /\ ~call.schedThrew
    /\ ~printing
    /\ timers = {}
    /\ ops = <<"scan", "revert">>
    /\ doc = doc0
    /\ \E i \in 1..Len(doc0) : acceptNode(doc0[i].node, ParentTag(doc0[i].path))

\* every wrapper of the document, nested ones included
RECURSIVE WrappersIn(_)
WrappersIn(node) ==
    IF node.kind # "wrapper" THEN {}
    ELSE {node} \cup UNION {WrappersIn(node.children[j]) : j \in 1..Len(node.children)}

\* C10: the stored original text of every wrapper, parsed again with the
\* pattern, has as many matches as the wrapper has fields, in the same
\* order, and each field records the underscore run length of its match.
C10_OriginalMatchesFields ==
    \A i \in 1..Len(doc) : \A w \in WrappersIn(doc[i].node) :
        LET ms == Matches(w.original)
            fs == Fields(w)
        IN  /\ Len(fs) = Len(ms)
            /\ \A n \in 1..Len(fs) : ParseInt(fs[n].underscores) = Len(ms[n].underscores)

C10_Witness ==
    /\ Len(doc) = 2
    /\ doc[1].node.kind = "wrapper"
    /\ doc[2].node.kind = "wrapper"
    /\ Len(Fields(doc[1].node)) = 2
    /\ Fields(doc[1].node)[2].underscores = <<"6">>
    /\ pc = "inOrig"

\* ---------------------------------------------------------------- ScanSpec properties
\* the node standing at an address of a document
At(document, a) == NodeAt(document[a[1]].node, Tail(a))

\* new is the marker container that replaces the text node old
Replaced(old, new) ==
    /\ new.kind = "wrapper"
    /\ new.className = "print-fillers-wrapper"
    /\ new.original = old.value

\* how many of n collected nodes a scan stopped by fault f has replaced
Completed(f, n) ==
    IF f.kind = "none" THEN n ELSE IF f.kind = "walk" THEN 0 ELSE f.at - 1

\* C11: a run of Scan never throws to its caller.  When the traversal or the
\* replacement of a node fails it logs a warning and returns normally; the
\* nodes replaced before the failure stay replaced, the node that failed and
\* every later one are left as they were, as is every other position.
C11_ScanNeverThrows ==
    [][LastOp(ops') = "scan" =>
          LET nodes == walkFrom(doc, 1)
              done == Completed(lastScan'.fault, Len(nodes))
          IN  /\ ~lastScan'.threw
              /\ lastScan'.warned <=> (lastScan'.fault # NoFault)
              /\ Len(doc') = Len(doc)
              /\ \A j \in 1..Len(nodes) :
                    IF j <= done
                    THEN Replaced(At(doc, nodes[j]), At(doc', nodes[j]))
                    ELSE At(doc', nodes[j]) = At(doc, nodes[j])
              /\ \A i \in 1..Len(doc) :
                    (\A j \in 1..Len(nodes) : nodes[j][1] # i) => doc'[i] = doc[i]]_vars

C11_Witness ==
    /\ LastOp(ops) = "scan"
    /\ lastScan.warned
    /\ ~lastScan.threw
    /\ lastScan.fault = [kind |-> "replace", at |-> 2]
    /\ Len(doc) = 2
    /\ doc[1].node.kind = "wrapper"
    /\ doc[2] = doc0[2]
    /\ acceptNode(doc[2].node, ParentTag(doc[2].path))

\* the three conditions on a text node, read off the position directly
Eligible(slot) ==
    /\ slot.node.kind = "text"
    /\ \E j \in 1..Len(slot.node.value) : slot.node.value[j] \notin WhiteSpace
    /\ ~IsExemptTag(ParentTag(slot.path))
    /\ HasPlaceholder(slot.node.value)

\* C14: a Scan that runs to its end replaces a text node exactly when its
\* value is not blank, its immediate parent is not an exempt element and the
\* value holds a match; everything else stays as it was.  The nodes are all
\* collected before the first is replaced: a Scan whose traversal fails has
\* replaced nothing.
C14_ReplacedIffEligible ==
    [][LastOp(ops') = "scan" =>
          /\ Len(doc') = Len(doc)
          /\ lastScan'.fault = NoFault =>
               \A i \in 1..Len(doc) :
                  IF Eligible(doc[i])
                  THEN /\ Replaced(doc[i].node, doc'[i].node)
                       /\ doc'[i].path = doc[i].path
                  ELSE doc'[i] = doc[i]
          /\ lastScan'.fault.kind = "walk" => doc' = doc]_vars

C14_Witness ==
    /\ LastOp(ops) = "scan"
    /\ lastScan.fault = NoFault
    /\ Len(doc) = 2
    /\ Eligible(doc0[1])
    /\ doc[1].node.kind = "wrapper"
    /\ doc0[2].path = <<TagPRE>>
    /\ HasPlaceholder(doc0[2].node.value)
    /\ doc[2] = doc0[2]

\* a marker container built to the end from the text node old
Finished(old, w) ==
    /\ Replaced(old, w)
    /\ \A j \in 1..Len(w.children) : w.children[j].kind \in {"text", "input"}
    /\ Spell(w.children, 1) = old.value
    /\ Len(Fields(w)) = Len(Matches(old.value))
    /\ Len(Fields(w)) >= 1

\* C17: replacing one text node is all or nothing.  Whatever point a Scan
\* failed at, each position holds either its text node as it was or a
\* finished marker container that stores the node's text, and a Revert after
\* the failed Scan gives the original document back.
C17_AllOrNothing ==
    /\ Len(doc) = Len(doc0)
    /\ \A i \in 1..Len(doc) :
          \/ doc[i] = doc0[i]
          \/ /\ doc[i].path = doc0[i].path
             /\ Finished(doc0[i].node, doc[i].node)
    /\ LastOp(ops) = "revert" => doc = doc0

C17_Witness ==
    /\ ops = <<"scan", "revert">>
    /\ lastScan.warned
    /\ lastScan.fault = [kind |-> "replace", at |-> 2]
    /\ Len(doc) = 2
    /\ doc = doc0
    /\ Len(walkFrom(doc, 1)) = 2

\* ---------------------------------------------------------------- Spec properties (2)
\* the step runs afterPrint: as the afterprint listener or from a timer
RevertRuns == (printing /\ ~printing') \/ (timers \ timers') # {}

\* C12: a Revert that finds no marker container changes nothing: every
\* position keeps its text node and the style element stays as it is; so a
\* Revert that directly follows a Revert changes nothing.
C12_RevertWithoutMarkerIsNoOp ==
    [][RevertRuns =>
          /\ LastOp(ops') = "revert"
          /\ styles' = styles
          /\ AllText(doc) => doc' = doc
          /\ LastOp(ops) = "revert" => (AllText(doc) /\ doc' = doc)]_vars

C12_Witness ==
    /\ ops = <<"revert", "revert">>
    /\ styles = 1
    /\ doc = doc0
    /\ \E i \in 1..Len(doc) : ~TrimNonEmpty(doc[i].node.value)
    /\ \E i \in 1..Len(doc) : acceptNode(doc[i].node, ParentTag(doc[i].path))

\* ---------------------------------------------------------------- TextSpec properties (2)
\* C13: each field's width is max(2, n) in ch for the n underscores of its
\* match; n is at least 5, so the width is n, and 5 for a run of exactly 5.
\* A colon followed by only 1 to 4 underscores gives no match, no field and
\* no marker container.
C13_FieldWidth ==
    LET text == doc0[1].node.value
        ms == Matches(text)
        w == doc[1].node
    IN  LastOp(ops) = "scan" =>
            /\ w.kind = "wrapper" =>
                 /\ Len(Fields(w)) = Len(ms)
                 /\ \A n \in 1..Len(Fields(w)) :
                      LET run == Len(ms[n].underscores)
                          width == Fields(w)[n].width
                      IN  /\ width = String(Max(2, run)) \o <<"c", "h">>
                          /\ run >= 5
                          /\ width = String(run) \o <<"c", "h">>
                          /\ run = 5 => width = <<"5", "c", "h">>
            /\ text \in ShortRunTexts => (w = TextNode(text) /\ Matches(text) = <<>>)

C13_Witness ==
    /\ LastOp(ops) = "scan"
    /\ doc0[1].node.value = <<":">> \o Us(4) \o <<":", "\n", "\t">> \o Us(5)
    /\ doc[1].node.kind = "wrapper"
    /\ Len(Fields(doc[1].node)) = 1
    /\ Fields(doc[1].node)[1].width = <<"5", "c", "h">>

\* C15: while a print operation is in progress (beforeprint has fired, the
\* matching afterprint has not) the document stays transformed: no Revert,
\* a Revert left pending by an earlier call of window.print included, puts
\* the placeholders back.  The beforeprint listener scans whenever
\* document.head exists, so during the operation no text node the walker
\* would accept may be left in the document.
C15_TransformedWhilePrinting ==
    (printing /\ hasHead) => walkFrom(doc, 1) = <<>>

\* the document with every marker container replaced by a text node of the
\* original text it stores
Originals(document) ==
    [i \in 1..Len(document) |->
        IF document[i].node.kind = "wrapper"
        THEN [path |-> document[i].path, node |-> TextNode(document[i].node.original)]
        ELSE document[i]]

\* C16: in every state reached by beforeprint and afterprint events, calls
\* of window.print and expiring timers, in any order, the document with each
\* marker container replaced by its stored original is the original
\* document; so one Revert from that state gives the original document
\* back, with no marker container and no field left.
C16_OriginalRecoverable ==
    /\ AllText(doc0)
    /\ Originals(doc) = doc0
    /\ afterPrint(doc) = doc0
    /\ LastOp(ops) = "revert" => doc = doc0

C16_Witness ==
    /\ calls = 1
    /\ timers = {1}
    /\ printing
    /\ ops = <<"revert", "scan">>
    /\ Len(doc) = 2
    /\ doc[1].node.kind = "wrapper"
    /\ doc[2].node.kind = "wrapper"
    /\ doc[2].node.children[Len(doc[2].node.children)] = TextNode(<<"a">>)

====
